---- MODULE Spec2Model ----
(***************************************************************************)
(* A model of signac/contrib/sync.py: the data-modification proxy, the     *)
(* document merge (_merge_dicts), the transactional document merge         *)
(* (_merge_json_dicts), the directory merge (_merge_dirs), merge_jobs and  *)
(* merge_projects.                                                         *)
(*                                                                         *)
(* Four specifications share the module:                                   *)
(*   SpecDoc   one call of _merge_dicts on two documents                   *)
(*   SpecTx    one call of _merge_json_dicts on a file-backed document     *)
(*   SpecDir   one call of _merge_dirs on two directory trees              *)
(*   Spec      one call of merge_projects on two projects                  *)
(***************************************************************************)
EXTENDS Integers, Sequences, FiniteSets, TLC

\* ------------------------------------------------------------------ bounds

\* Scalar integer values of a document are 0..MaxVal.
MaxVal == 1

\* An interactive key strategy answers at most MaxPrompt prompts before the
\* prompt that fails.
MaxPrompt == 2

\* File contents of a workspace are 0..MaxContent.
MaxContent == 1

\* ------------------------------------------------------------ small helpers

Range(f) == {f[x] : x \in DOMAIN f}

\* f with key k bound to v (k is added when absent): doc[key] = value
Put(f, k, v) == [x \in (DOMAIN f) \cup {k} |-> IF x = k THEN v ELSE f[x]]

\* ---------------------------------------------------------------- documents

\* Keys of a document, in the iteration order of src.items().
KeyOrder == <<"a", "b">>

Keys == Range(KeyOrder)

\* The key that may hold a nested document in the documents explored.
NestKeys == {"b"}

IntVals == 0 .. MaxVal

IntV(n) == [t |-> "int", i |-> n]

\* A string value, as its sequence of characters.
StrV(s) == [t |-> "str", s |-> s]

\* A nested document (collections.abc.Mapping).
MapV(d) == [t |-> "map", m |-> d]

IntScalars == {IntV(n) : n \in IntVals}

Scalars == IntScalars \cup {StrV(<<"a">>)}

\* All documents over Keys whose values are drawn from vals(key).
DocsOver(vals(_)) ==
    UNION {{d \in [K -> UNION {vals(k) : k \in K}] : \A k \in K : d[k] \in vals(k)} :
           K \in SUBSET Keys}

FlatVals(k) == IntScalars

\* Documents with integer values only: the nested documents.
FlatDocs == DocsOver(FlatVals)

TopVals(k) == IF k \in NestKeys THEN Scalars \cup {MapV(d) : d \in FlatDocs} ELSE Scalars

\* The documents explored: scalars, and one level of nesting under NestKeys.
Docs == DocsOver(TopVals)

\* isinstance(value, Mapping)
IsMapping(v) == v.t = "map"

\* ------------------------------------------------------------------- errors

NoError == "none"

\* Raised errors that are instances of Exception; KeyboardInterrupt derives
\* from BaseException only.
IsException(e) == e \notin {NoError, "KeyboardInterrupt"}

\* --------------------------------------------------------------- strategies

\* A strategy value. name "None" is strategy=None; "theirs" and "ours" are the
\* module's two-argument functions; "keyYes", "keyNo", "keyA", "keyB" are
\* one-argument functions of the key; "prompt" is an interactive one-argument
\* function that answers yes to n-1 prompts and whose n-th prompt raises `kind`
\* (EOFError on a closed input, KeyboardInterrupt on an interrupt).
Strat(name, n, kind) == [name |-> name, n |-> n, kind |-> kind]

StratNone == Strat("None", 0, NoError)

theirs == Strat("theirs", 0, NoError)

ours == Strat("ours", 0, NoError)

KeyStrategies == {Strat(nm, 0, NoError) : nm \in {"keyYes", "keyNo", "keyA", "keyB"}}

PromptStrategies ==
    {Strat("prompt", n, k) : n \in 1 .. MaxPrompt, k \in {"EOFError", "KeyboardInterrupt"}}

FileStrategies == {StratNone, theirs, ours}

DocStrategies == {StratNone, theirs, ours} \cup KeyStrategies \cup PromptStrategies

\* Number of positional parameters of the strategy function.
StrategyArity(s) == IF s.name \in {"theirs", "ours"} THEN 2 ELSE 1

\* theirs(fn_src, fn_dst) / ours(fn_src, fn_dst)
CallFileStrategy(s) == s.name = "theirs"

\* strategy(key) in _merge_dicts, as the asked-th call of the strategy:
\* [err, ret]. Calling a two-argument function with one argument is a TypeError.
CallKeyStrategy(s, key, asked) ==
    IF StrategyArity(s) # 1 THEN [err |-> "TypeError", ret |-> FALSE]
    ELSE IF s.name = "prompt"
         THEN IF asked = s.n THEN [err |-> s.kind, ret |-> FALSE]
              ELSE [err |-> NoError, ret |-> TRUE]
    ELSE [err |-> NoError,
          ret |-> \/ s.name = "keyYes"
                  \/ s.name = "keyA" /\ key = "a"
                  \/ s.name = "keyB" /\ key = "b"]

\* ------------------------------------------------------- _DataModifyProxy

\* A set_value that leaves the container with the one key assigned.
SetValueAlone(dstv, key, value, dry_run) ==
    IF dry_run THEN [err |-> NoError, dst |-> dstv]
    ELSE IF IsMapping(dstv) THEN [err |-> NoError, dst |-> MapV([x \in {key} |-> value])]
    ELSE [err |-> "TypeError", dst |-> dstv]

\* _DataModifyProxy.set_value(doc, key, value) on the container dstv:
\* [err, dst]. The action is logged in both modes; doc[key] = value is
\* performed unless dry_run. Item assignment on a str or an int is a TypeError.
SetValue(dstv, key, value, dry_run) ==
    IF dry_run THEN [err |-> NoError, dst |-> dstv]
    ELSE IF IsMapping(dstv) THEN [err |-> NoError, dst |-> MapV(Put(dstv.m, key, value))]
    ELSE [err |-> "TypeError", dst |-> dstv]

\* ------------------------------------------------------------ _merge_dicts

\* `key in dst`: [err, ret]. Membership in a mapping is a key test, in a str a
\* substring test (keys are one character long), in an int a TypeError.
KeyIn(key, dstv) ==
    IF dstv.t = "map" THEN [err |-> NoError, ret |-> key \in DOMAIN dstv.m]
    ELSE IF dstv.t = "str" THEN [err |-> NoError, ret |-> key \in Range(dstv.s)]
    ELSE [err |-> "TypeError", ret |-> FALSE]

\* `dst[key]` once `key in dst` holds: [err, val]. Indexing a str with a str
\* is a TypeError.
GetItem(dstv, key) ==
    IF dstv.t = "map" THEN [err |-> NoError, val |-> dstv.m[key]]
    ELSE [err |-> "TypeError", val |-> dstv]

\* The state one call of _merge_dicts threads through its loop:
\*   dst      the destination container (mutated in place by set_value)
\*   skipped  skipped_keys of this call
\*   calls    number of proxy.set_value calls made so far (whole merge)
\*   asked    the strategy calls made so far (whole merge), each with the key
\*            and the two values compared
\*   err      the error raised, NoError while none
MergeState(dstv, calls, asked) ==
    [dst |-> dstv, skipped |-> {}, calls |-> calls, asked |-> asked, err |-> NoError]

RECURSIVE MergeDictsV(_, _, _, _, _, _)
RECURSIVE MergeLoop(_, _, _, _, _)

\* Lines 155: proxy.set_value(dst, key, value) at the end of the loop body.
MergeSet(st, key, value, dry_run) ==
    LET r == SetValue(st.dst, key, value, dry_run)
    IN  [st EXCEPT !.dst = r.dst, !.calls = @ + 1, !.err = r.err]

\* A conflict that is declined and not recorded.
SkipKeyUnrecorded(st, key) == st

\* Lines 146-147: skipped_keys.add(key); continue
SkipKey(st, key) == [st EXCEPT !.skipped = @ \cup {key}]

\* The strategy is asked about every key dst has, before the values are
\* compared.
MergeKeyAskedFirst(st, key, value, strategy, dry_run) ==
    IF ~IsMapping(st.dst) THEN [st EXCEPT !.err = "TypeError"]
    ELSE IF key \notin DOMAIN st.dst.m THEN MergeSet(st, key, value, dry_run)
    ELSE IF strategy.name = "None"
    THEN IF st.dst.m[key] = value THEN st ELSE SkipKey(st, key)
    ELSE LET ask == CallKeyStrategy(strategy, key, Len(st.asked) + 1)
             st1 == [st EXCEPT !.asked = Append(@, [key |-> key, sv |-> value,
                                                    dv |-> st.dst.m[key]])]
         IN  IF ask.err # NoError THEN [st1 EXCEPT !.err = ask.err]
             ELSE IF ~ask.ret THEN SkipKey(st1, key)
             ELSE MergeSet(st1, key, value, dry_run)

\* Every value of src is assigned, with no comparison and no strategy.
MergeKeyAssigned(st, key, value, strategy, dry_run) == MergeSet(st, key, value, dry_run)

\* Lines 142-155: the loop body for one (key, value) of src.
MergeKey(st, key, value, strategy, dry_run) ==
    LET in == KeyIn(key, st.dst)
    IN
    IF in.err # NoError THEN [st EXCEPT !.err = in.err]
    ELSE IF ~in.ret THEN MergeSet(st, key, value, dry_run)
    ELSE
      LET got == GetItem(st.dst, key)
      IN
      IF got.err # NoError THEN [st EXCEPT !.err = got.err]
      ELSE IF got.val = value THEN st
      ELSE IF strategy.name = "None" THEN SkipKey(st, key)
      ELSE
        LET ask == CallKeyStrategy(strategy, key, Len(st.asked) + 1)
            st1 == [st EXCEPT !.asked = Append(@, [key |-> key, sv |-> value, dv |-> got.val])]
        IN
        IF ask.err # NoError THEN [st1 EXCEPT !.err = ask.err]
        ELSE IF ~ask.ret THEN SkipKey(st1, key)
        ELSE IF IsMapping(value) THEN
          LET sub == MergeDictsV(value, got.val, strategy, dry_run, st1.calls, st1.asked)
              \* the nested container is mutated in place
              st2 == [st1 EXCEPT !.dst = MapV(Put(st1.dst.m, key, sub.dst)),
                                 !.calls = sub.calls, !.asked = sub.asked]
          IN
          IF sub.err = "KeyError" THEN MergeSet(st2, key, value, dry_run)
          ELSE IF sub.err # NoError THEN [st2 EXCEPT !.err = sub.err]
          ELSE [st2 EXCEPT !.skipped = @ \cup sub.skipped]
        ELSE MergeSet(st1, key, value, dry_run)

\* Lines 141-156: for key, value in src.items(), from the i-th key on.
MergeLoop(srcd, st, strategy, dry_run, i) ==
    IF i > Len(KeyOrder) \/ st.err # NoError THEN st
    ELSE IF KeyOrder[i] \notin DOMAIN srcd THEN MergeLoop(srcd, st, strategy, dry_run, i + 1)
    ELSE MergeLoop(srcd, MergeKey(st, KeyOrder[i], srcd[KeyOrder[i]], strategy, dry_run),
                   strategy, dry_run, i + 1)

\* A merge that assigns every key of src, with no comparison.
MergeDictsVAssignAll(srcv, dstv, strategy, dry_run, calls, asked) ==
    IF ~IsMapping(dstv) THEN [MergeState(dstv, calls, asked) EXCEPT !.err = "TypeError"]
    ELSE [MergeState(dstv, calls, asked) EXCEPT
            !.dst = IF dry_run THEN dstv
                    ELSE MapV([k \in (DOMAIN dstv.m) \cup (DOMAIN srcv.m) |->
                                 IF k \in DOMAIN srcv.m THEN srcv.m[k] ELSE dstv.m[k]]),
            !.calls = calls + Cardinality(DOMAIN srcv.m)]

\* _merge_dicts(src, dst, strategy, proxy) on a mapping srcv and a container
\* dstv, after `calls` set_value calls and the strategy calls `asked`.
MergeDictsV(srcv, dstv, strategy, dry_run, calls, asked) ==
    IF srcv = dstv THEN MergeState(dstv, calls, asked)
    ELSE MergeLoop(srcv.m, MergeState(dstv, calls, asked), strategy, dry_run, 1)

\* _merge_dicts on two documents: [dst, skipped, calls, asked, err], dst a
\* document.
MergeDicts(srcd, dstd, strategy, dry_run) ==
    LET r == MergeDictsV(MapV(srcd), MapV(dstd), strategy, dry_run, 0, <<>>)
    IN  [r EXCEPT !.dst = r.dst.m]

\* -------------------------------------------------------------------- state

VARIABLES
    pc,            \* position of the call under way
    src,           \* the source document
    dst,           \* the destination document (in memory)
    strategy,      \* the document strategy (doc_strategy)
    dry_run,       \* proxy.dry_run
    file,          \* the file dst._filename on disk
    backup,        \* the file dst._filename + '~' on disk
    fn_backup,     \* TRUE once create_backup has yielded path_backup
    skipped_keys,  \* the set returned by the call
    raised,        \* the error that propagated out of the call, or NoError
    logged,        \* errors passed to logger.error
    merge_err,     \* the error _merge_dicts raised inside the call, or NoError
    calls,         \* number of proxy.set_value calls made
    asked,         \* the strategy calls made
    dst0,          \* dst when the call began
    file0,         \* file when the call began
    backup0,       \* backup when the call began
    first,         \* the outcome of the call, once the call is repeated
    src_dir,       \* the source directory tree
    dst_dir,       \* the destination directory tree
    exclude,       \* the exclusion patterns
    named,         \* the entry a MergeConflict names
    asked_files,   \* the file strategy calls made, each the path of the entry
    dst_dir0,      \* dst_dir when the call began
    source,        \* the source project
    destination,   \* the destination project
    doc_strategy,  \* the document strategy of merge_projects
    selection,     \* the selection of merge_projects
    check_schema,  \* the check_schema flag of merge_projects
    todo,          \* the source jobs still to be iterated over
    cloned,        \* the count of cloned jobs
    merged,        \* the count of merged jobs
    dispatch,      \* per job processed: its id, whether the destination had it, what was done
    destination0   \* destination when the call began

\* The variables of a document merge.
docvars == <<src, dst, file, backup, fn_backup, logged, merge_err, calls, asked,
             dst0, file0, backup0, first>>

\* The variables of a directory merge.
dirvars == <<src_dir, dst_dir, exclude, named, asked_files, dst_dir0>>

\* The variables of a project merge.
projvars == <<source, destination, doc_strategy, selection, check_schema, todo,
              cloned, merged, dispatch, destination0>>

vars == <<pc, strategy, dry_run, skipped_keys, raised, docvars, dirvars, projvars>>

\* The variables a specification does not use stay at these values.
IdleDoc ==
    /\ src = <<>> /\ dst = <<>> /\ file = [exists |-> FALSE] /\ backup = [exists |-> FALSE]
    /\ fn_backup = FALSE /\ logged = {} /\ merge_err = "none" /\ calls = 0
    /\ asked = <<>> /\ dst0 = <<>> /\ file0 = [exists |-> FALSE]
    /\ backup0 = [exists |-> FALSE] /\ first = <<>>

IdleDir ==
    /\ src_dir = <<>> /\ dst_dir = <<>> /\ exclude = <<>> /\ named = <<>>
    /\ asked_files = <<>> /\ dst_dir0 = <<>>

IdleProj ==
    /\ source = <<>> /\ destination = <<>> /\ doc_strategy = <<>> /\ selection = <<>>
    /\ check_schema = FALSE /\ todo = <<>> /\ cloned = 0 /\ merged = 0
    /\ dispatch = <<>> /\ destination0 = <<>>

\* A path with no file, and a file holding the document d.
NoFile == [exists |-> FALSE]

FileOf(d) == [exists |-> TRUE, content |-> d]

\* ------------------------------------------------- SpecDoc: _merge_dicts

\* No call has been repeated.
NoCall == <<>>

InitDoc ==
    /\ IdleDir /\ IdleProj
    /\ pc = "call"
    /\ src \in Docs
    /\ dst \in Docs
    /\ strategy \in DocStrategies
    /\ dry_run \in BOOLEAN
    /\ file = NoFile
    /\ backup = NoFile
    /\ fn_backup = FALSE
    /\ skipped_keys = {}
    /\ raised = NoError
    /\ logged = {}
    /\ merge_err = NoError
    /\ calls = 0
    /\ asked = <<>>
    /\ dst0 = dst
    /\ file0 = file
    /\ backup0 = backup
    /\ first = NoCall

\* _merge_dicts(src, dst, strategy, proxy), called on an in-memory document.
CallMergeDicts ==
    /\ pc = "call"
    /\ LET r == MergeDicts(src, dst, strategy, dry_run)
       IN  /\ dst' = r.dst
           /\ skipped_keys' = IF r.err = NoError THEN r.skipped ELSE {}
           /\ raised' = r.err
           /\ merge_err' = r.err
           /\ calls' = r.calls
           /\ asked' = r.asked
    /\ pc' = "done"
    /\ UNCHANGED <<src, strategy, dry_run, file, backup, fn_backup, logged,
                   dst0, file0, backup0, first>>
    /\ UNCHANGED <<dirvars, projvars>>

\* The same call of _merge_dicts once more, on dst as the call left it.
RepeatMergeDicts ==
    /\ pc = "done"
    /\ first' = [dst |-> dst, skipped |-> skipped_keys, calls |-> calls, asked |-> asked,
                 raised |-> raised]
    /\ LET r == MergeDicts(src, dst, strategy, dry_run)
       IN  /\ dst' = r.dst
           /\ skipped_keys' = IF r.err = NoError THEN r.skipped ELSE {}
           /\ raised' = r.err
           /\ merge_err' = r.err
           /\ calls' = r.calls
           /\ asked' = r.asked
    /\ pc' = "again"
    /\ UNCHANGED <<src, strategy, dry_run, file, backup, fn_backup, logged,
                   dst0, file0, backup0>>
    /\ UNCHANGED <<dirvars, projvars>>

NextDoc == CallMergeDicts \/ RepeatMergeDicts

SpecDoc == InitDoc /\ [][NextDoc]_vars

\* --------------------------------------------- SpecTx: _merge_json_dicts

\* The content of a stale backup file left behind by an earlier run.
StaleDoc == [k \in {"a"} |-> IntV(0)]

\* A file cut short by a copy that failed part-way.
Truncated == [exists |-> TRUE, truncated |-> TRUE]

\* The file of a file-backed document after its in-memory value went from
\* before to after: an assignment to the document is written to its file.
WriteThrough(f, before, after) ==
    IF f.exists /\ after # before THEN FileOf(after) ELSE f

TxVals(k) == IF k \in NestKeys THEN IntScalars \cup {MapV(d) : d \in FlatDocs} ELSE IntScalars

\* The documents explored by SpecTx: integers, and one level of nesting.
TxDocs == DocsOver(TxVals)

TxStrategies == {StratNone, theirs, Strat("keyYes", 0, NoError)} \cup PromptStrategies

InitTx ==
    /\ IdleDir /\ IdleProj
    /\ pc = "call"
    /\ src \in TxDocs
    /\ dst \in TxDocs
    /\ strategy \in TxStrategies
    /\ dry_run \in BOOLEAN
    /\ file \in {NoFile, FileOf(dst)}
    /\ backup \in IF file.exists THEN {NoFile, FileOf(StaleDoc)} ELSE {NoFile}
    /\ fn_backup = FALSE
    /\ skipped_keys = {}
    /\ raised = NoError
    /\ logged = {}
    /\ merge_err = NoError
    /\ calls = 0
    /\ asked = <<>>
    /\ dst0 = dst
    /\ file0 = file
    /\ backup0 = backup
    /\ first = NoCall

\* Lines 160-161: no backing file on disk, _merge_dicts is called directly.
MergeJsonDirect ==
    /\ pc = "call"
    /\ ~file.exists
    /\ LET r == MergeDicts(src, dst, strategy, dry_run)
       IN  /\ dst' = r.dst
           /\ skipped_keys' = IF r.err = NoError THEN r.skipped ELSE {}
           /\ raised' = r.err
           /\ merge_err' = r.err
           /\ calls' = r.calls
           /\ asked' = r.asked
    /\ pc' = "done"
    /\ UNCHANGED <<src, strategy, dry_run, file, backup, fn_backup, logged,
                   dst0, file0, backup0, first>>
    /\ UNCHANGED <<dirvars, projvars>>

\* create_backup without the test of line 118: a stale backup is overwritten.
CreateBackupNoCheck ==
    /\ pc = "call"
    /\ file.exists
    /\ backup' = IF dry_run THEN backup ELSE file
    /\ fn_backup' = TRUE
    /\ pc' = "merge"
    /\ UNCHANGED <<src, dst, strategy, dry_run, file, skipped_keys, raised, logged,
                   merge_err, calls, asked, dst0, file0, backup0, first>>
    /\ UNCHANGED <<dirvars, projvars>>

\* Lines 115-125: create_backup up to its yield. An existing path_backup
\* raises RuntimeError before the try block is entered. shutil.copy(path,
\* path_backup) may fail inside the try block, with or without a partial
\* backup file written; the finally block then runs and the with body does not.
CreateBackup ==
    /\ pc = "call"
    /\ file.exists
    /\ IF backup.exists
       THEN /\ raised' = "RuntimeError"
            /\ pc' = "done"
            /\ UNCHANGED <<backup, fn_backup>>
       ELSE \E ok \in BOOLEAN, cut \in BOOLEAN :
            IF ok \/ dry_run
            THEN /\ backup' = IF dry_run THEN backup ELSE file
                 /\ fn_backup' = TRUE
                 /\ pc' = "merge"
                 /\ UNCHANGED raised
            ELSE /\ backup' = IF cut THEN Truncated ELSE NoFile
                 /\ raised' = "IOError"
                 /\ pc' = "finally"
                 /\ UNCHANGED fn_backup
    /\ UNCHANGED <<src, dst, strategy, dry_run, file, skipped_keys, logged, merge_err,
                   calls, asked, dst0, file0, backup0, first>>
    /\ UNCHANGED <<dirvars, projvars>>

\* Lines 164-166: _merge_dicts inside the with block. An Exception is caught
\* by `except Exception`; any other error leaves the with block at once.
MergeInBackup ==
    /\ pc = "merge"
    /\ LET r == MergeDicts(src, dst, strategy, dry_run)
       IN  /\ dst' = r.dst
           /\ file' = WriteThrough(file, dst, r.dst)
           /\ skipped_keys' = IF r.err = NoError THEN r.skipped ELSE {}
           /\ raised' = r.err
           /\ merge_err' = r.err
           /\ calls' = r.calls
           /\ asked' = r.asked
           /\ pc' = IF IsException(r.err) THEN "restore" ELSE "finally"
    /\ UNCHANGED <<src, strategy, dry_run, backup, fn_backup, logged, dst0, file0, backup0, first>>
    /\ UNCHANGED <<dirvars, projvars>>

\* _DataModifyProxy.copy(src, dst) of the backup onto the document file:
\* the file after a copy that succeeds.
ProxyCopy(from, to, dry) == IF dry THEN to ELSE from

\* Lines 167-170: proxy.copy(fn_backup, dst._filename), then raise. A copy
\* that fails raises its own error in place of the one caught.
RestoreBackup ==
    /\ pc = "restore"
    /\ \E ok \in BOOLEAN, cut \in BOOLEAN :
        IF ok \/ dry_run
        THEN /\ file' = ProxyCopy(backup, file, dry_run)
             /\ UNCHANGED raised
        ELSE /\ file' = IF cut THEN Truncated ELSE file
             /\ raised' = "IOError"
    /\ pc' = "finally"
    /\ UNCHANGED <<src, dst, strategy, dry_run, backup, fn_backup, skipped_keys, logged,
                   merge_err, calls, asked, dst0, file0, backup0, first>>
    /\ UNCHANGED <<dirvars, projvars>>

\* The finally block as an else block: the backup is removed only when no
\* error is in flight.
RemoveBackupOnSuccess ==
    /\ pc = "finally"
    /\ backup' = IF dry_run \/ raised # NoError THEN backup ELSE NoFile
    /\ pc' = "done"
    /\ UNCHANGED <<src, dst, strategy, dry_run, file, fn_backup, skipped_keys, raised,
                   logged, merge_err, calls, asked, dst0, file0, backup0, first>>
    /\ UNCHANGED <<dirvars, projvars>>

\* Lines 126-132: the finally block of create_backup. os.remove is not
\* called in a dry run; it fails when there is no file to remove and may fail
\* when there is one; its failure (an OSError, which IOError names) is logged
\* and not raised.
RemoveBackup ==
    /\ pc = "finally"
    /\ \E ok \in BOOLEAN :
        IF dry_run THEN UNCHANGED <<backup, logged>>
        ELSE IF ok /\ backup.exists THEN backup' = NoFile /\ UNCHANGED logged
        ELSE logged' = logged \cup {"OSError"} /\ UNCHANGED backup
    /\ pc' = "done"
    /\ UNCHANGED <<src, dst, strategy, dry_run, file, fn_backup, skipped_keys, raised,
                   merge_err, calls, asked, dst0, file0, backup0, first>>
    /\ UNCHANGED <<dirvars, projvars>>

NextTx == MergeJsonDirect \/ CreateBackup \/ MergeInBackup \/ RestoreBackup \/ RemoveBackup

SpecTx == InitTx /\ [][NextTx]_vars

\* ----------------------------------------------------------- directory trees

\* An entry name is its sequence of characters. A tree maps the names of a
\* directory to its entries: files with a content, directories with a tree.
FileE(c) == [t |-> "file", c |-> c]

DirE(tree) == [t |-> "dir", d |-> tree]

\* The entry names, in the sorted order in which filecmp.dircmp lists them.
NameOrder == << <<"d">>, <<"j">>, <<"j", "~">>, <<"m">>, <<"x">>, <<"x", "y">>, <<"y">> >>

Contents == 0 .. MaxContent

\* All trees of files over the names N.
FileTrees(N) == UNION {[K -> {FileE(c) : c \in Contents}] : K \in SUBSET N}

\* The subdirectories explored hold the files x and y.
SubTrees == FileTrees({<<"x">>, <<"y">>})

TopNames == {<<"x", "y">>, <<"d">>}

\* The entries explored under a top-level name: xy is a file; d is a file or
\* a directory.
TopEntries(n) ==
    IF n = <<"d">> THEN {FileE(c) : c \in Contents} \cup {DirE(tr) : tr \in SubTrees}
    ELSE {FileE(c) : c \in Contents}

\* The trees explored.
Trees ==
    UNION {{tr \in [K -> UNION {TopEntries(n) : n \in K}] : \A n \in K : tr[n] \in TopEntries(n)} :
           K \in SUBSET TopNames}

\* The exclusion lists explored: none, the pattern x, the pattern d.
Excludes == {<<>>, << <<"x">> >>, << <<"d">> >>}

\* re.match(p, fn) for a pattern of literal characters: p matches at the
\* start of fn, not necessarily to its end.
ReMatch(p, fn) == Len(p) <= Len(fn) /\ SubSeq(fn, 1, Len(p)) = p

\* Lines 177, 187: exclude and any([re.match(p, fn) for p in exclude])
Excluded(excl, fn) == Len(excl) > 0 /\ \E j \in 1 .. Len(excl) : ReMatch(excl[j], fn)

\* filecmp.dircmp(src, dst): the names only in src, the common files whose
\* contents differ, the common subdirectories. A name that is a file on one
\* side and a directory on the other is in none of them.
LeftOnly(s, d) == (DOMAIN s) \ (DOMAIN d)

DiffFiles(s, d) ==
    {fn \in (DOMAIN s) \cap (DOMAIN d) :
        s[fn].t = "file" /\ d[fn].t = "file" /\ s[fn].c # d[fn].c}

Subdirs(s, d) ==
    {fn \in (DOMAIN s) \cap (DOMAIN d) : s[fn].t = "dir" /\ d[fn].t = "dir"}

\* _DataModifyProxy.copy(src, dst) of the file `entry` to the name fn of tree.
ProxyCopyFile(tree, fn, entry, dry) == IF dry THEN tree ELSE Put(tree, fn, entry)

\* _DataModifyProxy.copytree(src, dst) of the directory `entry` to the name
\* fn of tree: shutil.copytree copies the whole tree, whatever the names in it.
ProxyCopyTree(tree, fn, entry, dry) == IF dry THEN tree ELSE Put(tree, fn, entry)

\* ------------------------------------------------------------- _merge_dirs

\* The state one call of _merge_dirs threads through its loops:
\*   dst    the destination tree
\*   asked  the strategy calls made so far (whole merge), each the path asked
\*   err    the error raised, NoError while none
\*   named  the entry name a MergeConflict carries
DirState(tree, asked_) == [dst |-> tree, asked |-> asked_, err |-> NoError, named |-> <<>>]

RECURSIVE CopyLeftOnly(_, _, _, _, _, _)
RECURSIVE ResolveDiffFiles(_, _, _, _, _, _, _, _)
RECURSIVE MergeSubdirs(_, _, _, _, _, _, _, _)
RECURSIVE MergeDirsT(_, _, _, _, _, _, _)

\* Lines 176-185: for fn in diff.left_only, from the i-th name on.
CopyLeftOnly(s, d, st, excl, dry, i) ==
    IF i > Len(NameOrder) THEN st
    ELSE LET fn == NameOrder[i]
         IN  IF fn \notin LeftOnly(s, d) \/ Excluded(excl, fn)
             THEN CopyLeftOnly(s, d, st, excl, dry, i + 1)
             ELSE IF s[fn].t = "file"
             THEN CopyLeftOnly(s, d, [st EXCEPT !.dst = ProxyCopyFile(@, fn, s[fn], dry)],
                               excl, dry, i + 1)
             ELSE CopyLeftOnly(s, d, [st EXCEPT !.dst = ProxyCopyTree(@, fn, s[fn], dry)],
                               excl, dry, i + 1)

\* A differing file with no strategy is left alone without an error.
ResolveDiffSilently(st, fn, entry, strat, dry, prefix) ==
    IF strat.name = "None" THEN st
    ELSE LET st1 == [st EXCEPT !.asked = Append(@, prefix \o <<fn>>)]
         IN  IF CallFileStrategy(strat)
             THEN [st1 EXCEPT !.dst = ProxyCopyFile(@, fn, entry, dry)]
             ELSE st1

\* A differing file is overwritten whatever the strategy returns.
ResolveDiffAlways(st, fn, entry, strat, dry, prefix) ==
    IF strat.name = "None" THEN [st EXCEPT !.err = "MergeConflict", !.named = fn]
    ELSE [st EXCEPT !.asked = Append(@, prefix \o <<fn>>),
                    !.dst = ProxyCopyFile(@, fn, entry, dry)]

\* Lines 190-198: one differing file fn that is not excluded.
ResolveDiff(st, fn, entry, strat, dry, prefix) ==
    IF strat.name = "None" THEN [st EXCEPT !.err = "MergeConflict", !.named = fn]
    ELSE LET st1 == [st EXCEPT !.asked = Append(@, prefix \o <<fn>>)]
         IN  IF CallFileStrategy(strat)
             THEN [st1 EXCEPT !.dst = ProxyCopyFile(@, fn, entry, dry)]
             ELSE st1

\* Lines 186-198: for fn in diff.diff_files, from the i-th name on.
ResolveDiffFiles(s, d, st, excl, strat, dry, prefix, i) ==
    IF i > Len(NameOrder) \/ st.err # NoError THEN st
    ELSE LET fn == NameOrder[i]
         IN  IF fn \notin DiffFiles(s, d) \/ Excluded(excl, fn)
             THEN ResolveDiffFiles(s, d, st, excl, strat, dry, prefix, i + 1)
             ELSE ResolveDiffFiles(s, d, ResolveDiff(st, fn, s[fn], strat, dry, prefix),
                                   excl, strat, dry, prefix, i + 1)

\* Lines 199-200: for subdir in diff.subdirs, from the i-th name on. The
\* recursion is not subject to the exclusion list.
MergeSubdirs(s, d, st, excl, strat, dry, prefix, i) ==
    IF i > Len(NameOrder) \/ st.err # NoError THEN st
    ELSE LET fn == NameOrder[i]
         IN  IF fn \notin Subdirs(s, d)
             THEN MergeSubdirs(s, d, st, excl, strat, dry, prefix, i + 1)
             ELSE LET sub == MergeDirsT(s[fn].d, st.dst[fn].d, excl, strat, dry,
                                        prefix \o <<fn>>, st.asked)
                  IN  MergeSubdirs(s, d,
                                   [dst |-> Put(st.dst, fn, DirE(sub.dst)), asked |-> sub.asked,
                                    err |-> sub.err, named |-> sub.named],
                                   excl, strat, dry, prefix, i + 1)

\* _merge_dirs(src, dst, exclude, strategy, proxy) on the trees s and d, d at
\* the path `prefix` of the destination: [dst, asked, err, named].
MergeDirsT(s, d, excl, strat, dry, prefix, asked_) ==
    LET st1 == CopyLeftOnly(s, d, DirState(d, asked_), excl, dry, 1)
        st2 == ResolveDiffFiles(s, d, st1, excl, strat, dry, prefix, 1)
    IN  MergeSubdirs(s, d, st2, excl, strat, dry, prefix, 1)

MergeDirs(s, d, excl, strat, dry) == MergeDirsT(s, d, excl, strat, dry, <<>>, <<>>)

\* ---------------------------------------------------- SpecDir: _merge_dirs

InitDir ==
    /\ IdleDoc /\ IdleProj
    /\ pc = "call"
    /\ src_dir \in Trees
    /\ dst_dir \in Trees
    /\ exclude \in Excludes
    /\ strategy \in FileStrategies
    /\ dry_run \in BOOLEAN
    /\ skipped_keys = {}
    /\ raised = NoError
    /\ named = <<>>
    /\ asked_files = <<>>
    /\ dst_dir0 = dst_dir

\* _merge_dirs(src, dst, exclude, strategy, proxy)
CallMergeDirs ==
    /\ pc = "call"
    /\ LET r == MergeDirs(src_dir, dst_dir, exclude, strategy, dry_run)
       IN  /\ dst_dir' = r.dst
           /\ raised' = r.err
           /\ named' = r.named
           /\ asked_files' = r.asked
    /\ pc' = "done"
    /\ UNCHANGED <<strategy, dry_run, skipped_keys, src_dir, exclude, dst_dir0>>
    /\ UNCHANGED <<docvars, projvars>>

NextDir == CallMergeDirs

SpecDir == InitDir /\ [][NextDir]_vars

\* ------------------------------------- SpecMerge: either of the two merges

\* A call of _merge_dicts on two documents or of _merge_dirs on two trees.
InitMerge == InitDoc \/ InitDir

\* No trees, or no documents, were given: the call is of the other merge.
NoTrees == src_dir = <<>> /\ dst_dir0 = <<>> /\ exclude = <<>>

NoDocuments == src = <<>> /\ dst0 = <<>>

NextMerge ==
    \/ NoTrees /\ CallMergeDicts
    \/ NoDocuments /\ CallMergeDirs

SpecMerge == InitMerge /\ [][NextMerge]_vars

\* ---------------------------------------------------------------- merge_jobs

\* Job.FN_MANIFEST and Job.FN_DOCUMENT, the reserved file names of a job's
\* workspace; the job document is the content of the file FN_DOCUMENT.
FN_MANIFEST == <<"m">>

FN_DOCUMENT == <<"j">>

EmptyDoc == [k \in {} |-> IntV(0)]

\* job.doc of the job with the workspace ws, and its backing file.
JobDocFile(ws) == IF FN_DOCUMENT \in DOMAIN ws THEN FileOf(ws[FN_DOCUMENT].c) ELSE NoFile

JobDoc(ws) == IF FN_DOCUMENT \in DOMAIN ws THEN ws[FN_DOCUMENT].c ELSE EmptyDoc

\* The workspace ws once the backing file of its job document is f.
WithJobDocFile(ws, f) == IF f.exists THEN Put(ws, FN_DOCUMENT, FileE(f.content)) ELSE ws

\* The document a file backs: empty when there is no file.
DocOf(f) == IF f.exists THEN f.content ELSE EmptyDoc

\* The file a document is written through to when its value becomes d.
Written(f, d) == IF d # DocOf(f) THEN FileOf(d) ELSE f

\* Lines 162-170 after the merge of the documents returned r: an exception
\* restores the file that was backed up, any other outcome leaves what was
\* written.
JsonOutcome(f, r, dry) ==
    [file |-> IF f.exists /\ IsException(r.err) THEN ProxyCopy(f, Written(f, r.dst), dry)
              ELSE Written(f, r.dst),
     skipped |-> IF r.err = NoError THEN r.skipped ELSE {},
     err |-> r.err]

\* _merge_json_dicts(src, dst, strategy, proxy) on the source document srcd
\* and the destination document whose backing file is f, where no stale
\* backup exists and no copy or removal fails: [file, skipped, err], file the
\* backing file afterwards. A document with no file yet is empty and gets its
\* file with the first value assigned; the backup is gone when the call ends.
MergeJsonDicts(srcd, f, strat, dry) ==
    JsonOutcome(f, MergeDicts(srcd, DocOf(f), strat, dry), dry)

\* The exclude argument: None, one pattern, or a list of patterns.
ExcludeNone == [t |-> "None"]

\* Lines 205-208: exclude as a list.
NormalizeExclude(excl) ==
    IF excl.t = "None" THEN <<>>
    ELSE IF excl.t = "list" THEN excl.l
    ELSE <<excl.p>>

\* Lines 205-208, 222: the exclusion list merge_jobs passes to _merge_dirs.
JobExclude(excl) == NormalizeExclude(excl) \o <<FN_MANIFEST, FN_DOCUMENT>>

\* The destination workspace ws once the merge of the job documents returned jr.
JobDocOutcome(ws, jr) ==
    [ws |-> WithJobDocFile(ws, jr.file), skipped |-> jr.skipped, err |-> jr.err]

\* Lines 223-224: the job documents are merged after the directories, whose
\* merge returned dr, and not at all when that merge raised.
MergeJobDoc(sws, dr, dstrat, dry) ==
    IF dr.err # NoError THEN [ws |-> dr.dst, skipped |-> {}, err |-> dr.err]
    ELSE JobDocOutcome(dr.dst, MergeJsonDicts(JobDoc(sws), JobDocFile(dr.dst), dstrat, dry))

\* A merge of two jobs that raises leaves the destination workspace as it was.
UndoneIfRaised(dws, r) == IF r.err # NoError THEN [r EXCEPT !.ws = dws] ELSE r

MergeJobsUndone(sws, dws, excl, strat, dstrat, dry) ==
    UndoneIfRaised(dws, MergeJobDoc(sws, MergeDirs(sws, dws, JobExclude(excl), strat, dry),
                                    dstrat, dry))

\* merge_jobs(src_job, dst_job, exclude, strategy, doc_strategy, proxy) on
\* the workspaces of two jobs of the same id: [ws, skipped, err], ws the
\* destination workspace afterwards.
MergeJobs(sws, dws, excl, strat, dstrat, dry) ==
    MergeJobDoc(sws, MergeDirs(sws, dws, JobExclude(excl), strat, dry), dstrat, dry)

\* ------------------------------------------------------------ merge_projects

\* A project: its root directory, the file of its project document, and its
\* jobs, a workspace per job id.
Project(root, doc_file, jobs) == [root |-> root, doc_file |-> doc_file, jobs |-> jobs]

\* project.document: a project with no document file has an empty document.
ProjectDoc(p) == IF p.doc_file.exists THEN p.doc_file.content ELSE EmptyDoc

\* source == destination: two projects are the same when their roots are.
ProjectEq(p, q) == p.root = q.root

\* project.detect_schema(): the keys the documents of its jobs use.
DetectSchema(p) == UNION {DOMAIN JobDoc(p.jobs[id]) : id \in DOMAIN p.jobs}

\* A schema check in one direction only.
SchemaConflictOneWay(schema_src, schema_dst) ==
    schema_dst # {} /\ schema_src # schema_dst /\ (schema_src \ schema_dst) # {}

\* Lines 245-246: the condition under which MergeSchemaConflict is raised.
SchemaConflict(schema_src, schema_dst) ==
    /\ schema_dst # {}
    /\ schema_src # schema_dst
    /\ (schema_src \ schema_dst) # {} \/ (schema_dst \ schema_src) # {}

\* destination.clone(job) raises DestinationExistsError when the destination
\* has a job of that id, and else copies the job into the destination.
CloneRaises(dest, id) == id \in DOMAIN dest.jobs

Clone(dest, id, ws) == [dest EXCEPT !.jobs = Put(@, id, ws)]

\* The ids of a set, ascending: the order in which jobs are iterated over.
RECURSIVE Ascending(_)
Ascending(S) ==
    IF S = {} THEN <<>>
    ELSE LET m == CHOOSE x \in S : \A y \in S : x <= y
         IN  <<m>> \o Ascending(S \ {m})

\* The keys merge_jobs returns are not added to skipped_keys.
MergedKeysDropped(dest, id, r) ==
    [dest |-> [dest EXCEPT !.jobs[id] = r.ws], how |-> "merge", cloned |-> 0,
     merged |-> IF r.err = NoError THEN 1 ELSE 0, skipped |-> {}, err |-> r.err]

\* Lines 280-287: the destination has the job; merge_jobs returned r. The job
\* is counted as merged when merge_jobs returns.
Merged(dest, id, r) ==
    [dest |-> [dest EXCEPT !.jobs[id] = r.ws], how |-> "merge", cloned |-> 0,
     merged |-> IF r.err = NoError THEN 1 ELSE 0, skipped |-> r.skipped, err |-> r.err]

\* A job is counted as cloned before clone is tried.
HandleJobCountFirst(dest, id, sws, excl, strat, dstrat, dry) ==
    IF ~CloneRaises(dest, id)
    THEN [dest |-> Clone(dest, id, sws), how |-> "clone", cloned |-> 1, merged |-> 0,
          skipped |-> {}, err |-> NoError]
    ELSE [Merged(dest, id, MergeJobs(sws, dest.jobs[id], excl, strat, dstrat, dry))
            EXCEPT !.cloned = 1]

\* Lines 278-287: one selected source job, of workspace sws: clone it, or
\* merge it with the destination job of its id when clone raises
\* DestinationExistsError. clone is called on the destination itself, not on
\* the proxy.
HandleJob(dest, id, sws, excl, strat, dstrat, dry) ==
    IF ~CloneRaises(dest, id)
    THEN [dest |-> Clone(dest, id, sws), how |-> "clone", cloned |-> 1, merged |-> 0,
          skipped |-> {}, err |-> NoError]
    ELSE Merged(dest, id, MergeJobs(sws, dest.jobs[id], excl, strat, dstrat, dry))

\* Lines 249-250, 275: the selection, None or a set of job ids.
Unselected == [given |-> FALSE, ids |-> {}]

Selected(ids) == [given |-> TRUE, ids |-> ids]

\* An element of a selection: a job id, or a job, of which str() is its id.
JobId(id) == [t |-> "id", id |-> id]

JobRef(id) == [t |-> "job", id |-> id]

Str(j) == j.id

\* An empty selection is taken for no selection.
InSelectionIfAny(sel, id) == sel.ids = {} \/ id \in {Str(j) : j \in sel.ids}

InSelection(sel, id) == ~sel.given \/ id \in {Str(j) : j \in sel.ids}

\* The projects explored: job ids 1 and 2. Job 1 has no document and no
\* data, or a document with key a and data files; job 2 has a document with
\* key b, or is as job 1 with data.
JobIds == {1, 2}

Doc1(k, n) == [x \in {k} |-> IntV(n)]

Workspaces(id) ==
    LET m == [n \in {FN_MANIFEST} |-> FileE(id)]
        wa == Put(Put(m, FN_DOCUMENT, FileE(Doc1("a", 0))), <<"x">>, FileE(0))
        wb == Put(Put(Put(m, FN_DOCUMENT, FileE(Doc1("a", 1))), <<"x">>, FileE(1)),
                  <<"y">>, FileE(0))
    IN  IF id = 1 THEN {m, wa, wb}
        ELSE {Put(m, FN_DOCUMENT, FileE(Doc1("b", 0))), wa, wb}

JobMaps ==
    UNION {{js \in [K -> UNION {Workspaces(id) : id \in K}] :
              \A id \in K : js[id] \in Workspaces(id)} : K \in SUBSET JobIds}

Projects(root, docs) == {Project(root, f, js) : f \in docs, js \in JobMaps}

Init ==
    /\ IdleDoc
    /\ src_dir = <<>> /\ dst_dir = <<>> /\ named = <<>> /\ asked_files = <<>>
    /\ dst_dir0 = <<>>
    /\ pc = "call"
    /\ source \in Projects("A", {NoFile, FileOf(Doc1("b", 0))})
    /\ destination \in Projects("B", {NoFile, FileOf(Doc1("b", 1))}) \cup {source}
    /\ exclude = ExcludeNone
    /\ strategy \in {StratNone, theirs}
    /\ doc_strategy \in {StratNone, Strat("keyYes", 0, NoError)}
    /\ selection \in {Unselected, Selected({}), Selected({JobId(1)}), Selected({JobRef(1)})}
    /\ check_schema \in BOOLEAN
    /\ dry_run \in BOOLEAN
    /\ skipped_keys = {}
    /\ raised = NoError
    /\ todo = <<>>
    /\ cloned = 0
    /\ merged = 0
    /\ dispatch = <<>>
    /\ destination0 = destination

\* The checks without the test for a merge of a project into itself.
BeginUntested ==
    /\ pc = "call"
    /\ IF check_schema /\ SchemaConflict(DetectSchema(source), DetectSchema(destination))
       THEN raised' = "MergeSchemaConflict" /\ pc' = "done"
       ELSE raised' = raised /\ pc' = "document"
    /\ UNCHANGED <<strategy, dry_run, skipped_keys, docvars, dirvars, projvars>>

\* Lines 235-250: the test for a merge of a project into itself and the
\* schema check.
Begin ==
    /\ pc = "call"
    /\ IF ProjectEq(source, destination)
       THEN raised' = "ValueError" /\ pc' = "done"
       ELSE IF check_schema /\ SchemaConflict(DetectSchema(source), DetectSchema(destination))
       THEN raised' = "MergeSchemaConflict" /\ pc' = "done"
       ELSE raised' = raised /\ pc' = "document"
    /\ UNCHANGED <<strategy, dry_run, skipped_keys, docvars, dirvars, projvars>>

\* Lines 265-273: the project document is merged first.
MergeProjectDocument ==
    /\ pc = "document"
    /\ \E r \in {MergeJsonDicts(ProjectDoc(source), destination.doc_file, doc_strategy,
                               dry_run)} :
           /\ destination' = [destination EXCEPT !.doc_file = r.file]
           /\ skipped_keys' = r.skipped
           /\ raised' = r.err
           /\ pc' = IF r.err = NoError THEN "jobs" ELSE "done"
    /\ todo' = Ascending(DOMAIN source.jobs)
    /\ UNCHANGED <<strategy, dry_run, docvars, dirvars, source, doc_strategy, selection,
                   check_schema, cloned, merged, dispatch, destination0>>

\* Lines 274-287: one turn of the loop over the source jobs.
ProcessJob ==
    /\ pc = "jobs"
    /\ todo # <<>>
    /\ LET id == Head(todo)
       IN  IF ~InSelection(selection, id)
           THEN UNCHANGED <<destination, skipped_keys, raised, cloned, merged, dispatch, pc>>
           ELSE \E r \in {HandleJob(destination, id, source.jobs[id], exclude, strategy,
                                     doc_strategy, dry_run)} :
                    /\ destination' = r.dest
                    /\ skipped_keys' = skipped_keys \cup r.skipped
                    /\ raised' = r.err
                    /\ cloned' = cloned + r.cloned
                    /\ merged' = merged + r.merged
                    /\ dispatch' = Append(dispatch,
                                          [id |-> id, existed |-> id \in DOMAIN destination.jobs,
                                           how |-> r.how, skipped |-> r.skipped])
                    /\ pc' = IF r.err = NoError THEN "jobs" ELSE "done"
    /\ todo' = Tail(todo)
    /\ UNCHANGED <<strategy, dry_run, docvars, src_dir, dst_dir, named, asked_files, dst_dir0,
                   exclude, source, doc_strategy, selection, check_schema, destination0>>

\* Lines 288-294: the counts are logged and skipped_keys is returned.
Finish ==
    /\ pc = "jobs"
    /\ todo = <<>>
    /\ pc' = "done"
    /\ UNCHANGED <<strategy, dry_run, skipped_keys, raised, docvars, dirvars, projvars>>

Next == Begin \/ MergeProjectDocument \/ ProcessJob \/ Finish

Spec == Init /\ [][Next]_vars

\* ------------------------------------------------------------------- claims

\* create_backup was entered past the test for a stale backup.
BackupEntered == file0.exists /\ ~backup0.exists

\* C1 (as claimed): in normal mode, on a document whose backing file exists,
\* whenever _merge_dicts failed and its failure is the one that propagated out
\* of _merge_json_dicts (no copy and no removal failed on the way), the backing
\* file holds its pre-merge content.
C1_RollbackOnAnyFailure ==
    (/\ pc = "done" /\ ~dry_run /\ fn_backup
     /\ merge_err # NoError /\ raised = merge_err /\ logged = {})
        => file = file0

\* C2 (as claimed): in normal mode, once create_backup was entered with no
\* file at path~, no file path~ exists after the scope is left, on every exit
\* path, and the failure to remove it is never raised.
C2_BackupAlwaysRemoved ==
    (pc = "done" /\ ~dry_run /\ BackupEntered /\ fn_backup)
        => ~backup.exists /\ raised # "OSError"

\* C2 (amended): in normal mode, once create_backup was entered with no file
\* at path~, a file path~ exists after the scope is left only if its removal
\* failed; that failure is logged and is never the error raised, which is
\* none, the merge's own or the one of a failed copy.
C2_BackupLifetime ==
    (pc = "done" /\ ~dry_run /\ BackupEntered)
        => /\ backup.exists => "OSError" \in logged
           /\ raised \in {NoError, merge_err, "IOError"}
           /\ raised # "OSError"

\* The merge failed, the restoring copy failed as well, and the backup was
\* removed all the same.
C2_Witness ==
    /\ pc = "done" /\ ~dry_run /\ BackupEntered /\ fn_backup
    /\ merge_err # NoError /\ raised = "IOError"
    /\ ~backup.exists /\ logged = {}

\* C3: when a file path~ exists as _merge_json_dicts acquires the backup of
\* an existing backing file, the call raises the backup-exists error,
\* _merge_dicts never runs (no set_value call, no strategy call, document and
\* file unchanged) and the stale backup is left as it was, in both modes.
C3_StaleBackupBlocks ==
    (file0.exists /\ backup0.exists)
        => /\ pc \in {"call", "done"}
           /\ pc = "done" => raised = "RuntimeError"
           /\ calls = 0 /\ asked = <<>> /\ merge_err = NoError
           /\ dst = dst0 /\ file = file0 /\ backup = backup0

\* A stale backup blocked a merge that had a key to add.
C3_Witness ==
    /\ pc = "done" /\ file0.exists /\ backup0.exists /\ ~dry_run
    /\ raised = "RuntimeError"
    /\ "a" \in DOMAIN src /\ "a" \notin DOMAIN dst
    /\ backup = FileOf(StaleDoc)

\* Every key of the document s is in the document d with the value of s,
\* recursively where both values are nested documents.
RECURSIVE Covers(_, _)
Covers(s, d) ==
    \A k \in DOMAIN s :
        /\ k \in DOMAIN d
        /\ \/ d[k] = s[k]
           \/ IsMapping(s[k]) /\ IsMapping(d[k]) /\ Covers(s[k].m, d[k].m)

\* The keys only in the document d0 keep their values in the document d.
KeepsOwnKeys(s, d0, d) ==
    \A k \in (DOMAIN d0) \ (DOMAIN s) : k \in DOMAIN d /\ d[k] = d0[k]

\* C7 (as claimed): in normal mode _merge_dicts with a strategy that approves
\* every key it is asked about (`theirs` as a function of the key) completes
\* without error, returns no skipped key, and leaves every key of src in dst
\* with the value of src, recursively, while the keys only in dst keep their
\* values.
C7_TheirsMerge ==
    (pc = "done" /\ ~dry_run /\ strategy.name = "keyYes")
        => /\ raised = NoError
           /\ skipped_keys = {}
           /\ Covers(src, dst)
           /\ KeepsOwnKeys(src, dst0, dst)

\* The keys in both documents with unequal values.
ConflictKeys(s, d) == {k \in (DOMAIN s) \cap (DOMAIN d) : s[k] # d[k]}

\* What C8 says of a finished merge.
OursOutcome ==
    /\ raised = NoError
    /\ \A k \in DOMAIN dst0 : k \in DOMAIN dst /\ dst[k] = dst0[k]
    /\ ~dry_run => /\ DOMAIN dst = (DOMAIN dst0) \cup (DOMAIN src)
                   /\ \A k \in (DOMAIN src) \ (DOMAIN dst0) : dst[k] = src[k]
    /\ skipped_keys = ConflictKeys(src, dst0)

RECURSIVE FilePaths(_)
FilePaths(tree) ==
    UNION {IF tree[n].t = "file" THEN {<<n>>}
           ELSE {<<n>> \o q : q \in FilePaths(tree[n].d)} : n \in DOMAIN tree}

\* The entry at the path q of a tree.
RECURSIVE At(_, _)
At(tree, q) == IF Len(q) = 1 THEN tree[q[1]] ELSE At(tree[q[1]].d, Tail(q))

\* The file at the path q is in the tree `after` as it was in the tree `before`.
SameFile(before, after, q) ==
    q \in FilePaths(before) /\ q \in FilePaths(after) /\ At(after, q) = At(before, q)

\* C5 (as claimed): after _merge_dirs, at every depth, no file whose own name
\* matches an exclusion pattern has been copied to the destination: each such
\* file of the destination was there before the call, with the same content.
C5_ExclusionAtAllDepths ==
    pc = "done" =>
        \A q \in FilePaths(dst_dir) :
            Excluded(exclude, q[Len(q)]) => SameFile(dst_dir0, dst_dir, q)

\* The files that are in both trees with differing content and a name that
\* is not excluded, at any depth reached through common subdirectories.
RECURSIVE Conflicts(_, _, _)
Conflicts(s, d, excl) ==
    {<<fn>> : fn \in {n \in DiffFiles(s, d) : ~Excluded(excl, n)}}
    \cup UNION {{<<fn>> \o q : q \in Conflicts(s[fn].d, d[fn].d, excl)} : fn \in Subdirs(s, d)}

C4_DryRunFrame == (pc = "done" /\ dry_run) => destination = destination0

\* The selected source jobs of a call of merge_projects.
SelectedIds == {id \in DOMAIN source.jobs : InSelection(selection, id)}

\* The jobs merge_projects handled by cloning, or by merging.
Handled(how) == {i \in 1..Len(dispatch) : dispatch[i].how = how}

\* C9: in a normal-mode merge_projects that returns, each selected source job
\* was handled once, cloned if and only if the destination had no job of its
\* id when it was handled, and else merged with the destination job of its id;
\* the clones and the merges add up to the number of selected source jobs, so
\* that all are cloned into a destination with no jobs and all are merged into
\* a destination that has every one of them.
C9_CloneOrMerge ==
    (pc = "done" /\ raised = NoError /\ ~dry_run) =>
        /\ Len(dispatch) = Cardinality(SelectedIds)
        /\ {dispatch[i].id : i \in 1..Len(dispatch)} = SelectedIds
        /\ \A i \in 1..Len(dispatch) :
              /\ dispatch[i].how = "clone" <=> ~dispatch[i].existed
              /\ dispatch[i].how = "merge" <=> dispatch[i].existed
              /\ dispatch[i].existed <=> dispatch[i].id \in DOMAIN destination0.jobs
              /\ dispatch[i].how = "clone" =>
                    destination.jobs[dispatch[i].id] = source.jobs[dispatch[i].id]
        /\ cloned = Cardinality(Handled("clone"))
        /\ merged = Cardinality(Handled("merge"))
        /\ cloned + merged = Cardinality(SelectedIds)
        /\ DOMAIN destination0.jobs = {} => cloned = Cardinality(SelectedIds) /\ merged = 0
        /\ SelectedIds \subseteq DOMAIN destination0.jobs =>
              cloned = 0 /\ merged = Cardinality(SelectedIds)

\* Source jobs 1 and 2 were merged into a destination that had job 1 only:
\* job 1 was merged and job 2 was cloned.
C9_Witness ==
    /\ pc = "done" /\ raised = NoError /\ ~dry_run /\ ~selection.given
    /\ DOMAIN source.jobs = {1, 2} /\ DOMAIN destination0.jobs = {1}
    /\ source.jobs[1] # destination0.jobs[1]
    /\ cloned = 1 /\ merged = 1
    /\ dispatch[1].how = "merge" /\ dispatch[2].how = "clone"

\* The schemas differ: the destination's is not empty and one of the two has
\* a key the other lacks.
SchemasDiffer ==
    LET schema_src == DetectSchema(source)
        schema_dst == DetectSchema(destination0)
    IN  schema_dst # {} /\ ((schema_src \ schema_dst) # {} \/ (schema_dst \ schema_src) # {})

\* C10: once merge_projects is past its checks, it has raised
\* MergeSchemaConflict exactly when check_schema is set, the destination schema
\* is not empty and one of the schemas has a key the other lacks; when it has,
\* the call is over and the destination is what it was: no job was cloned or
\* merged and the project document is unchanged.
C10_SchemaCheck ==
    pc # "call" =>
        /\ raised = "MergeSchemaConflict" <=> (check_schema /\ SchemasDiffer)
        /\ raised = "MergeSchemaConflict" =>
              /\ pc = "done"
              /\ destination = destination0
              /\ cloned = 0 /\ merged = 0 /\ dispatch = <<>>

\* The jobs of the two projects use disjoint keys, and the merge would have
\* cloned a job had it gone on.
C10_Witness ==
    /\ pc = "done" /\ raised = "MergeSchemaConflict" /\ ~dry_run
    /\ DetectSchema(source) = {"a"} /\ DetectSchema(destination0) = {"b"}
    /\ SelectedIds \ DOMAIN destination0.jobs # {}

\* C11: merge_projects called with the destination as its source raises
\* ValueError before the schema check, the merge of the project documents and
\* the loop over the jobs: the call is over, nothing was cloned, merged or
\* skipped, and the project is what it was, whatever the strategies and the
\* mode.
C11_SelfMerge ==
    (ProjectEq(source, destination0) /\ pc # "call") =>
        /\ pc = "done"
        /\ raised = "ValueError"
        /\ destination = destination0
        /\ destination = source
        /\ cloned = 0 /\ merged = 0 /\ dispatch = <<>> /\ todo = <<>>
        /\ skipped_keys = {}

\* A project with a document and two jobs was merged into itself in normal
\* mode with both strategies approving and the schema check on.
C11_Witness ==
    /\ pc = "done" /\ raised = "ValueError" /\ ProjectEq(source, destination0)
    /\ ~dry_run /\ check_schema
    /\ strategy = theirs /\ doc_strategy.name = "keyYes"
    /\ source.doc_file.exists /\ DOMAIN source.jobs = {1, 2}

\* The source jobs that a given selection leaves out.
Unselected_Ids == {id \in DOMAIN source.jobs : selection.given /\ id \notin {Str(j) : j \in selection.ids}}

\* C12: at every point of merge_projects, a source job whose id is not in a
\* given selection (the empty one included) has not been cloned or merged: it
\* was not handled, the destination has a job of that id only if it had one,
\* and that job is what it was. With no selection, a merge_projects that
\* returns has handled every source job.
C12_SelectionFilter ==
    /\ \A id \in Unselected_Ids :
          /\ \A i \in 1..Len(dispatch) : dispatch[i].id # id
          /\ id \in DOMAIN destination.jobs <=> id \in DOMAIN destination0.jobs
          /\ id \in DOMAIN destination0.jobs => destination.jobs[id] = destination0.jobs[id]
    /\ (pc = "done" /\ raised = NoError /\ ~selection.given) =>
          {dispatch[i].id : i \in 1..Len(dispatch)} = DOMAIN source.jobs

\* Job 1 was selected, by the job itself, and merged; job 2 was not, although
\* the destination had a differing job 2 and both strategies approve.
C12_Witness ==
    /\ pc = "done" /\ raised = NoError /\ ~dry_run
    /\ selection = Selected({JobRef(1)})
    /\ strategy = theirs /\ doc_strategy.name = "keyYes"
    /\ DOMAIN source.jobs = {1, 2} /\ DOMAIN destination0.jobs = {1, 2}
    /\ source.jobs[2] # destination0.jobs[2]
    /\ destination.jobs[1] # destination0.jobs[1]
    /\ Len(dispatch) = 1 /\ dispatch[1].id = 1

\* The paths of the entries of a tree, files and directories.
RECURSIVE Paths(_)
Paths(tree) ==
    UNION {IF tree[n].t = "file" THEN {<<n>>}
           ELSE {<<n>>} \cup {<<n>> \o q : q \in Paths(tree[n].d)} : n \in DOMAIN tree}

\* The files of the destination that are not what they were before the call.
ChangedFiles == {q \in FilePaths(dst_dir0) : ~SameFile(dst_dir0, dst_dir, q)}

\* C13: after _merge_dirs, whether it returned or raised, every entry that was
\* in the destination is still there, every file and directory that was only
\* in the destination is what it was, and a file of the destination has
\* changed only if its name is not excluded, it differed from the file of the
\* source at its path, and the strategy was called on it and returned true; it
\* then has the content of the file of the source.
C13_DestinationOnlyKept ==
    pc = "done" =>
        /\ Paths(dst_dir0) \subseteq Paths(dst_dir)
        /\ \A q \in Paths(dst_dir0) \ Paths(src_dir) : At(dst_dir, q) = At(dst_dir0, q)
        /\ \A q \in ChangedFiles :
              /\ q \in Conflicts(src_dir, dst_dir0, exclude)
              /\ ~Excluded(exclude, q[Len(q)])
              /\ \E i \in 1..Len(asked_files) : asked_files[i] = q
              /\ CallFileStrategy(strategy)
              /\ At(dst_dir, q) = At(src_dir, q)

\* With the strategy theirs the file d/x was overwritten, while d/y and xy,
\* which were only in the destination, are what they were.
C13_Witness ==
    /\ pc = "done" /\ raised = NoError /\ strategy = theirs /\ ~dry_run
    /\ ChangedFiles = {<< <<"d">>, <<"x">> >>}
    /\ {<< <<"d">>, <<"y">> >>, << <<"x", "y">> >>} \subseteq Paths(dst_dir0) \ Paths(src_dir)

\* C14: after _merge_dicts, whatever the strategy and the mode and whether it
\* returned or raised, dst has every key it had, and every key of dst that src
\* lacks is a key dst had, with the value it had.
C14_OwnKeysKept ==
    pc = "done" =>
        /\ DOMAIN dst0 \subseteq DOMAIN dst
        /\ \A k \in (DOMAIN dst) \ (DOMAIN src) : k \in DOMAIN dst0 /\ dst[k] = dst0[k]

\* The key b of src was merged into dst in normal mode, and the key a, which
\* only dst had, kept its value.
C14_Witness ==
    /\ pc = "done" /\ raised = NoError /\ ~dry_run
    /\ DOMAIN src = {"b"} /\ DOMAIN dst0 = {"a", "b"}
    /\ dst["b"] # dst0["b"] /\ dst["a"] = dst0["a"]
    /\ calls > 0

\* C15: _merge_dicts(src, dst, strategy, proxy) with src equal to dst returns
\* the empty set, makes no set_value call and no call of the strategy, and
\* leaves dst as it is, for every strategy, None included.
C15_EqualShortCircuit ==
    (pc = "done" /\ src = dst0) =>
        /\ raised = NoError
        /\ skipped_keys = {}
        /\ calls = 0
        /\ asked = <<>>
        /\ dst = dst0

\* Two equal documents with a scalar and a nested value were merged with the
\* two-argument theirs, which raises TypeError when called with a key.
C15_Witness ==
    /\ pc = "done" /\ src = dst0 /\ ~dry_run
    /\ DOMAIN src = {"a", "b"} /\ IsMapping(src["b"]) /\ DOMAIN src["b"].m # {}
    /\ strategy = theirs
    /\ raised = NoError /\ calls = 0

\* The strategy is a function of the key that approves the key b.
ApprovesB == strategy.name \in {"keyYes", "keyB"}

\* src has a nested document under b where dst has a scalar.
NestedOverScalar ==
    /\ "b" \in DOMAIN src /\ IsMapping(src["b"])
    /\ "b" \in DOMAIN dst0 /\ ~IsMapping(dst0["b"])

\* C16 (as claimed): when src[key] is a nested document, dst[key] is a scalar
\* and the strategy approves the key, _merge_dicts does not raise, the key is
\* not skipped and, in normal mode, dst[key] is src[key] afterwards.
C16_NestedOverScalar ==
    (pc = "done" /\ ApprovesB /\ NestedOverScalar) =>
        /\ raised = NoError
        /\ "b" \notin skipped_keys
        /\ ~dry_run => dst["b"] = src["b"]

\* The keys _merge_dicts returns for the documents s and d under the
\* document strategy of the call.
SkippedOf(s, d) == MergeDicts(s, d, doc_strategy, dry_run).skipped

\* The selected source jobs the destination had: the jobs that are merged.
MergedIds == SelectedIds \cap DOMAIN destination0.jobs

\* C17: a merge_projects that returns returns the union of the keys skipped
\* in the merge of the project documents and of the keys skipped in the merge
\* of the job documents of every job that was merged; cloned jobs and jobs out
\* of the selection add no key.
C17_AggregateSkipped ==
    (pc = "done" /\ raised = NoError) =>
        /\ skipped_keys =
              SkippedOf(ProjectDoc(source), ProjectDoc(destination0))
              \cup UNION {SkippedOf(JobDoc(source.jobs[id]), JobDoc(destination0.jobs[id])) :
                            id \in MergedIds}
        /\ \A i \in 1..Len(dispatch) : dispatch[i].how = "clone" => dispatch[i].skipped = {}

\* With no document strategy, b was skipped in the project documents and a in
\* the documents of job 1, which was merged; job 2 was out of the selection.
C17_Witness ==
    /\ pc = "done" /\ raised = NoError /\ ~dry_run /\ doc_strategy = StratNone
    /\ SkippedOf(ProjectDoc(source), ProjectDoc(destination0)) = {"b"}
    /\ MergedIds = {1}
    /\ SkippedOf(JobDoc(source.jobs[1]), JobDoc(destination0.jobs[1])) = {"a"}
    /\ 2 \in DOMAIN source.jobs /\ 2 \notin SelectedIds
    /\ skipped_keys = {"a", "b"}

\* The file of the destination's project document once the project
\* documents are merged.
MergedDocFile ==
    MergeJsonDicts(ProjectDoc(source), destination0.doc_file, doc_strategy, dry_run).file

\* The workspace of the destination job id once it is merged with the source job.
MergedJob(id) ==
    MergeJobs(source.jobs[id], destination0.jobs[id], exclude, strategy, doc_strategy,
              dry_run).ws

\* The jobs handled so far are of ascending ids, each handled once.
OneAfterAnother ==
    \A i, j \in 1..Len(dispatch) : i < j => dispatch[i].id < dispatch[j].id

\* The jobs handled without an error are cloned or merged in the destination.
HandledStay(n) ==
    \A i \in 1..n :
        /\ dispatch[i].id \in DOMAIN destination.jobs
        /\ destination.jobs[dispatch[i].id] =
              IF dispatch[i].how = "clone" THEN source.jobs[dispatch[i].id]
              ELSE MergedJob(dispatch[i].id)

\* The entries merge_jobs copies from the workspace s to the workspace d
\* before it looks at the differing files.
CopiedFirst(s, d) == {n \in LeftOnly(s, d) : ~Excluded(JobExclude(exclude), n)}

\* C18: merge_projects merges the project documents before it clones or
\* merges a job, and handles the jobs one after another; when the merge of a
\* job raises MergeConflict, what was done before stays: the project document
\* is the merged one, the jobs handled before are cloned or merged, and in
\* normal mode the entries that only the source job had and that were copied
\* before the conflict are in the workspace of the job that failed.
C18_OrderNoRollback ==
    /\ pc \in {"call", "document"} =>
          dispatch = <<>> /\ destination.jobs = destination0.jobs
    /\ pc = "document" => destination.doc_file = destination0.doc_file
    /\ pc = "jobs" => destination.doc_file = MergedDocFile /\ HandledStay(Len(dispatch))
    /\ OneAfterAnother
    /\ (pc = "done" /\ raised = "MergeConflict") =>
          /\ dispatch # <<>>
          /\ dispatch[Len(dispatch)].how = "merge"
          /\ destination.doc_file = MergedDocFile
          /\ HandledStay(Len(dispatch) - 1)
          /\ LET id == dispatch[Len(dispatch)].id
             IN  /\ DOMAIN destination0.jobs[id] \subseteq DOMAIN destination.jobs[id]
                 /\ ~dry_run =>
                       \A n \in CopiedFirst(source.jobs[id], destination0.jobs[id]) :
                           /\ n \in DOMAIN destination.jobs[id]
                           /\ destination.jobs[id][n] = source.jobs[id][n]

\* The project documents were merged, job 1 was merged, and the merge of job
\* 2 raised MergeConflict on x after y had been copied: the document, job 1
\* and the copy of y are in the destination.
C18_Witness ==
    /\ pc = "done" /\ raised = "MergeConflict" /\ ~dry_run
    /\ destination.doc_file # destination0.doc_file
    /\ Len(dispatch) = 2 /\ dispatch[1].id = 1 /\ dispatch[1].how = "merge"
    /\ destination.jobs[1] # destination0.jobs[1]
    /\ dispatch[2].id = 2
    /\ CopiedFirst(source.jobs[2], destination0.jobs[2]) = {<<"y">>}
    /\ <<"y">> \in DOMAIN destination.jobs[2]

\* The strategy is None or a function whose answer depends on the key only.
Deterministic == strategy.name # "prompt"

\* Under every key both documents have, the values are both nested documents
\* or both scalars.
ShapesAgree ==
    \A k \in (DOMAIN src) \cap (DOMAIN dst0) : IsMapping(src[k]) <=> IsMapping(dst0[k])

\* C19: when a normal-mode _merge_dicts(src, dst, s, proxy) with a
\* deterministic s, on documents whose nested values are nested on both sides,
\* has returned and the same call is repeated, the second call returns too,
\* makes no set_value call, leaves dst as the first call left it and returns
\* the set the first call returned.
C19_Idempotent ==
    (pc = "again" /\ ~dry_run /\ first.raised = NoError /\ Deterministic /\ ShapesAgree) =>
        /\ raised = NoError
        /\ calls = 0
        /\ dst = first.dst
        /\ skipped_keys = first.skipped

\* The first call assigned values, in the nested document too, and skipped
\* the nested key a; the second call assigned nothing and skipped a again.
C19_Witness ==
    /\ pc = "again" /\ ~dry_run /\ first.raised = NoError /\ ShapesAgree
    /\ strategy.name = "keyB"
    /\ "b" \in (DOMAIN src) \cap (DOMAIN dst0)
    /\ IsMapping(src["b"]) /\ IsMapping(dst0["b"])
    /\ first.calls > 0 /\ first.dst # dst0 /\ first.skipped = {"a"}
    /\ calls = 0 /\ dst = first.dst /\ skipped_keys = {"a"}

\* The strategy call `a` of _merge_dicts was on a key that both documents
\* have with unequal values, at the top or in the nested documents under b.
AskedOnConflict(a) ==
    /\ a.sv # a.dv
    /\ \/ /\ a.key \in ConflictKeys(src, dst0)
          /\ a.sv = src[a.key] /\ a.dv = dst0[a.key]
       \/ /\ "b" \in ConflictKeys(src, dst0)
          /\ IsMapping(src["b"]) /\ IsMapping(dst0["b"])
          /\ a.key \in ConflictKeys(src["b"].m, dst0["b"].m)
          /\ a.sv = src["b"].m[a.key] /\ a.dv = dst0["b"].m[a.key]

\* The conflicts a _merge_dicts that returns comes to: those at the top and,
\* when the strategy approves b and b is nested on both sides, those under b.
DocConflicts ==
    Cardinality(ConflictKeys(src, dst0))
    + IF /\ "b" \in ConflictKeys(src, dst0)
         /\ IsMapping(src["b"]) /\ IsMapping(dst0["b"])
         /\ CallKeyStrategy(strategy, "b", 0).ret
      THEN Cardinality(ConflictKeys(src["b"].m, dst0["b"].m))
      ELSE 0

====
